---- MODULE Spec2Model ----
(***************************************************************************)
(* A model of the Big Bag Of Words of src/src/lib.rs.                      *)
(*                                                                         *)
(* A text is a sequence of Unicode code points (integers).  The bag is the *)
(* BTreeMap<Cow<str>, usize> of the struct Bbow, kept as the sequence of   *)
(* its entries in key order; an entry records the key's text, whether the  *)
(* Cow is Owned (a lowercased String) or Borrowed (a slice of the text),   *)
(* and the count.                                                          *)
(*                                                                         *)
(* The character classes and the lowercase mapping are those of the Rust   *)
(* standard library (char::is_whitespace, char::is_alphabetic,             *)
(* char::is_uppercase, str::to_lowercase), tabulated for the code points   *)
(* the model draws texts from and for the ones lowercasing produces:       *)
(*    U+0020 SPACE                    White_Space                          *)
(*    U+002D HYPHEN-MINUS             neither a letter nor white space     *)
(*    U+0041..005A  A..Z              Alphabetic, Uppercase, lower = +32   *)
(*    U+0061..007A  a..z              Alphabetic, Lowercase                *)
(*    U+0130 LATIN CAPITAL I WITH DOT ABOVE                                *)
(*                                    Alphabetic, Uppercase,               *)
(*                                    lower = U+0069 U+0307 (two chars)    *)
(*    U+0307 COMBINING DOT ABOVE      Mn, not Alphabetic                   *)
(*    U+01C4 DZ WITH CARON (capital)  Alphabetic, Uppercase, lower U+01C6  *)
(*    U+01C5 Dz WITH CARON (title)    Alphabetic, Lt: neither Uppercase    *)
(*                                    nor Lowercase, lower = U+01C6        *)
(*    U+01C6 dz WITH CARON (small)    Alphabetic, Lowercase                *)
(*    U+1D400..1D419 MATHEMATICAL BOLD CAPITAL A..Z                        *)
(*                                    Alphabetic, Uppercase (Lu), no       *)
(*                                    lowercase mapping                    *)
(* The context rule of str::to_lowercase for U+03A3 (final sigma) is not   *)
(* tabulated: no text of the model holds a sigma.                          *)
(***************************************************************************)
EXTENDS Integers, Sequences, FiniteSets, TLC

\* The most code points all ingested texts hold together.
MaxChars == 3

\* The most calls of extend_from_text on one bag.
MaxCalls == 2

\* The code points texts are drawn from.
Alphabet == {32, 45, 65, 97, 304, 453, 454, 119808}

VARIABLES
    bag,    \* self.0: the map's entries, in key order
    texts,  \* the texts ingested so far, in call order (history)
    before  \* self.0 as it was when the last call began (history)

vars == <<bag, texts, before>>

---------------------------------------------------------------------------
\* Character classes and mappings of the Rust standard library.

\* char::is_whitespace, used by str::split_whitespace: the White_Space
\* property.
is_whitespace(c) ==
    \/ (c >= 9 /\ c <= 13)
    \/ c \in {32, 133, 160, 5760, 8232, 8233, 8239, 8287, 12288}
    \/ (c >= 8192 /\ c <= 8202)

\* char::is_alphabetic: the Alphabetic property.
is_alphabetic(c) ==
    \/ (c >= 65 /\ c <= 90)
    \/ (c >= 97 /\ c <= 122)
    \/ c \in {304, 452, 453, 454}
    \/ (c >= 119808 /\ c <= 119833)

\* char::is_uppercase: the Uppercase property (titlecase letters are not in it).
is_uppercase(c) ==
    \/ (c >= 65 /\ c <= 90)
    \/ c \in {304, 452}
    \/ (c >= 119808 /\ c <= 119833)

\* char::to_lowercase: the code points one code point lowercases to.
to_lower(c) ==
    IF c >= 65 /\ c <= 90 THEN <<c + 32>>
    ELSE IF c = 304 THEN <<105, 775>>
    ELSE IF c \in {452, 453} THEN <<454>>
    ELSE <<c>>

\* str::to_lowercase: each code point's lowercase mapping, concatenated.
RECURSIVE to_lowercase(_)
to_lowercase(w) ==
    IF w = <<>> THEN <<>> ELSE to_lower(Head(w)) \o to_lowercase(Tail(w))

\* Ord for str: lexicographic over code points; -1, 0 or 1.
RECURSIVE str_cmp(_, _)
str_cmp(a, b) ==
    IF a = <<>> /\ b = <<>> THEN 0
    ELSE IF a = <<>> THEN -1
    ELSE IF b = <<>> THEN 1
    ELSE IF Head(a) < Head(b) THEN -1
    ELSE IF Head(a) > Head(b) THEN 1
    ELSE str_cmp(Tail(a), Tail(b))

\* str::split_whitespace: the maximal runs of non-whitespace, in order.
RECURSIVE split_from(_, _, _, _)
split_from(s, i, cur, acc) ==
    IF i > Len(s) THEN (IF cur = <<>> THEN acc ELSE Append(acc, cur))
    ELSE IF is_whitespace(s[i])
         THEN split_from(s, i + 1, <<>>, IF cur = <<>> THEN acc ELSE Append(acc, cur))
         ELSE split_from(s, i + 1, Append(cur, s[i]), acc)

split_whitespace(s) == split_from(s, 1, <<>>, <<>>)

---------------------------------------------------------------------------
\* The helpers of lib.rs.

\* is_word without the emptiness test: all() of no characters is true.
is_word_all_only(word) ==
    \A i \in 1..Len(word) : is_alphabetic(word[i])

is_word(word) ==
    /\ word # <<>>
    /\ \A i \in 1..Len(word) : is_alphabetic(word[i])

\* has_uppercase looking at the first character only.
has_uppercase_first(word) ==
    word # <<>> /\ is_uppercase(word[1])

has_uppercase(word) ==
    \E i \in 1..Len(word) : is_uppercase(word[i])

RECURSIVE trim_start(_)
trim_start(word) ==
    IF word = <<>> \/ is_alphabetic(Head(word)) THEN word
    ELSE trim_start(Tail(word))

RECURSIVE trim_end(_)
trim_end(word) ==
    IF word = <<>> \/ is_alphabetic(word[Len(word)]) THEN word
    ELSE trim_end(SubSeq(word, 1, Len(word) - 1))

\* trim_punctuation dropping every non-letter, not only those at the ends.
trim_punctuation_everywhere(word) ==
    SelectSeq(word, is_alphabetic)

\* word.trim_matches(|c| !c.is_alphabetic())
trim_punctuation(word) == trim_end(trim_start(word))

---------------------------------------------------------------------------
\* Bbow.

new == <<>>

\* cow_key that always borrows the word as it stands.
cow_key_borrowed(w) == [text |-> w, owned |-> FALSE]

\* The Cow built for an accepted word: Owned lowercase, or Borrowed as is.
cow_key(w) ==
    IF has_uppercase(w)
    THEN [text |-> to_lowercase(w), owned |-> TRUE]
    ELSE [text |-> w, owned |-> FALSE]

\* cow_cmp as a derived Ord on the enum would be: Borrowed before Owned, then
\* the text.
cow_cmp_variant_first(k1, k2) ==
    IF k1.owned = k2.owned THEN str_cmp(k1.text, k2.text)
    ELSE IF k2.owned THEN -1 ELSE 1

\* Ord and Eq for Cow<str>: those of the text it derefs to.
cow_cmp(k1, k2) == str_cmp(k1.text, k2.text)

\* The index of the first entry whose key is not below key (Len + 1: none).
RECURSIVE search_from(_, _, _)
search_from(self, key, i) ==
    IF i > Len(self) THEN i
    ELSE IF cow_cmp(self[i].key, key) < 0 THEN search_from(self, key, i + 1)
    ELSE i

\* entry_increment as self.0.insert(key, 1): an occupied entry restarts at 1.
entry_increment_insert(self, key) ==
    LET i == search_from(self, key, 1) IN
    IF i <= Len(self) /\ cow_cmp(self[i].key, key) = 0
    THEN [self EXCEPT ![i].count = 1]
    ELSE SubSeq(self, 1, i - 1)
         \o <<[key |-> key, count |-> 1]>>
         \o SubSeq(self, i, Len(self))

\* *self.0.entry(key).or_insert(0) += 1
\* An occupied entry keeps the key it was inserted with.
entry_increment(self, key) ==
    LET i == search_from(self, key, 1) IN
    IF i <= Len(self) /\ cow_cmp(self[i].key, key) = 0
    THEN [self EXCEPT ![i].count = @ + 1]
    ELSE SubSeq(self, 1, i - 1)
         \o <<[key |-> key, count |-> 0 + 1]>>
         \o SubSeq(self, i, Len(self))

\* The for_each over split_whitespace().map(trim_punctuation).filter(is_word).
RECURSIVE for_each(_, _)
for_each(self, tokens) ==
    IF tokens = <<>> THEN self
    ELSE LET w == trim_punctuation(Head(tokens)) IN
         for_each(IF is_word(w) THEN entry_increment(self, cow_key(w)) ELSE self,
                  Tail(tokens))

\* extend_from_text refilling a fresh map instead of self.
extend_from_text_fresh(self, target) == for_each(new, split_whitespace(target))

extend_from_text(self, target) == for_each(self, split_whitespace(target))

\* match_count lowercasing the keyword before the lookup.
match_count_lowercased(self, keyword) ==
    LET probe == [text |-> to_lowercase(keyword), owned |-> FALSE]
        i == search_from(self, probe, 1) IN
    IF i <= Len(self) /\ cow_cmp(self[i].key, probe) = 0
    THEN self[i].count
    ELSE 0

\* self.0.get(keyword): the lookup borrows the key as a str.
match_count(self, keyword) ==
    LET probe == [text |-> keyword, owned |-> FALSE]
        i == search_from(self, probe, 1) IN
    IF i <= Len(self) /\ cow_cmp(self[i].key, probe) = 0
    THEN self[i].count
    ELSE 0

\* self.0.keys().map(|w| w.as_ref())
words(self) == [i \in 1..Len(self) |-> self[i].key.text]

\* self.0.values().sum()
RECURSIVE count(_)
count(self) ==
    IF self = <<>> THEN 0 ELSE Head(self).count + count(Tail(self))

len(self) == Len(self)

is_empty(self) == Len(self) = 0

---------------------------------------------------------------------------
\* The state machine: a bag is built by Bbow::new() and then only extended.

RECURSIVE total_len(_)
total_len(ts) == IF ts = <<>> THEN 0 ELSE Len(Head(ts)) + total_len(Tail(ts))

TextsUpTo(n) == UNION {[1..m -> Alphabet] : m \in 0..n}

Init ==
    /\ bag = new
    /\ texts = <<>>
    /\ before = new

ExtendFromText(target) ==
    /\ Len(texts) < MaxCalls
    /\ bag' = extend_from_text(bag, target)
    /\ texts' = Append(texts, target)
    /\ before' = bag

Next == \E target \in TextsUpTo(MaxChars - total_len(texts)) : ExtendFromText(target)

Spec == Init /\ [][Next]_vars

\* Two calls on one bag with the same text: the second call re-ingests the
\* first call's text.
IngestFirst == \E target \in TextsUpTo(MaxChars) : texts = <<>> /\ ExtendFromText(target)

IngestAgain == Len(texts) = 1 /\ ExtendFromText(texts[1])

NextTwice == IngestFirst \/ IngestAgain

SpecTwice == Init /\ [][NextTwice]_vars

---------------------------------------------------------------------------
\* The terms of the specification's glossary, stated over the positions of a
\* text rather than by the code's iterator chain.

Range(f) == {f[i] : i \in DOMAIN f}

\* Token: a maximal run of non-whitespace characters, as <<first, last>>.
TokenSpans(t) ==
    {sp \in (1..Len(t)) \X (1..Len(t)) :
        /\ sp[1] <= sp[2]
        /\ \A p \in sp[1]..sp[2] : ~is_whitespace(t[p])
        /\ (sp[1] = 1 \/ is_whitespace(t[sp[1] - 1]))
        /\ (sp[2] = Len(t) \/ is_whitespace(t[sp[2] + 1]))}

\* Accepted word of a token: the non-empty run m of letters such that every
\* character of the token outside m is a non-letter (none when a non-letter
\* lies between two letters, or the token has no letter).
Middles(t, sp) ==
    {m \in (sp[1]..sp[2]) \X (sp[1]..sp[2]) :
        /\ m[1] <= m[2]
        /\ \A p \in sp[1]..sp[2] : is_alphabetic(t[p]) <=> (m[1] <= p /\ p <= m[2])}

AcceptedMiddles(t) == UNION {Middles(t, sp) : sp \in TokenSpans(t)}

\* Tokens that keep a non-letter between two letters after trimming.
InternalTokens(t) ==
    {sp \in TokenSpans(t) :
        /\ Middles(t, sp) = {}
        /\ \E p \in sp[1]..sp[2] : is_alphabetic(t[p])}

\* Every accepted word occurrence ingested so far: <<call, first, last>>.
AcceptedOcc ==
    UNION {{<<n, m[1], m[2]>> : m \in AcceptedMiddles(texts[n])} : n \in 1..Len(texts)}

WordAt(o) == SubSeq(texts[o[1]], o[2], o[3])

\* Canonical key: lowercased if the accepted word contained any uppercase
\* letter, unchanged otherwise.
CanonicalKey(w) ==
    IF {i \in 1..Len(w) : is_uppercase(w[i])} = {} THEN w ELSE to_lowercase(w)

\* Every contiguous piece of every ingested text.
Pieces(t) == {SubSeq(t, a, b) : a \in 1..Len(t), b \in 1..Len(t)}

\* Keywords to query: the empty string, every piece of every ingested text
\* (whole tokens, their fragments, uppercase and punctuated forms) and every
\* stored key.
Keywords(b, ts) ==
    {<<>>} \cup UNION {Pieces(ts[n]) : n \in 1..Len(ts)} \cup Range(words(b))

\* a < b in lexicographic code point order.
LexLess(a, b) ==
    \E i \in 1..(Len(b)) :
        /\ i <= Len(a) + 1
        /\ \A j \in 1..(i - 1) : a[j] = b[j]
        /\ (i = Len(a) + 1 \/ a[i] < b[i])

\* The count stored under the key whose text is k (0: no such key).
RECURSIVE SumCounts(_, _)
SumCounts(b, S) ==
    IF S = {} THEN 0
    ELSE LET i == CHOOSE x \in S : TRUE IN b[i].count + SumCounts(b, S \ {i})

StoredCount(b, k) == SumCounts(b, {i \in 1..Len(b) : b[i].key.text = k})

\* The keys stored in b.
Keys(b) == Range(words(b))

\* Two words that differ only in the case of their letters: position by
\* position the same letter, in its uppercase, titlecase or lowercase form.
CaseVariant(v, w) ==
    /\ Len(v) = Len(w)
    /\ \A i \in 1..Len(v) : to_lower(v[i]) = to_lower(w[i])

\* The bag new().extend_from_text(ts[1])...extend_from_text(ts[n]).
RECURSIVE Chain(_, _)
Chain(b, ts) ==
    IF ts = <<>> THEN b ELSE Chain(extend_from_text(b, Head(ts)), Tail(ts))

Reverse(ts) == [i \in 1..Len(ts) |-> ts[Len(ts) + 1 - i]]

\* The sum over the bags bs of match_count(k).
RECURSIVE SumMatch(_, _)
SumMatch(bs, k) ==
    IF bs = <<>> THEN 0 ELSE match_count(Head(bs), k) + SumMatch(Tail(bs), k)

---------------------------------------------------------------------------
\* C1: count() is the number of accepted word occurrences in all the texts
\* ingested so far, each occurrence counted once.
C1_CountIsAcceptedTokens == count(bag) = Cardinality(AcceptedOcc)

\* A text with an accepted word and a rejected token has been counted.
C1_Witness ==
    /\ count(bag) >= 1
    /\ \E n \in 1..Len(texts) :
          /\ AcceptedMiddles(texts[n]) # {}
          /\ Cardinality(TokenSpans(texts[n])) > Cardinality(AcceptedMiddles(texts[n]))

\* C2: every accepted word is counted under one key together with all its
\* case variants: at most one stored key is a case variant of it, and
\* match_count of its lowercase form is the number of variant occurrences.
C2_CaseInsensitive ==
    \A o \in AcceptedOcc :
        LET w == WordAt(o)
            V == {p \in AcceptedOcc : CaseVariant(WordAt(p), w)} IN
        /\ Cardinality({k \in Keys(bag) : CaseVariant(k, w)}) <= 1
        /\ match_count(bag, to_lowercase(w)) = Cardinality(V)

\* C3: one call changes match_count of every keyword by the number of the
\* text's tokens whose letters-only middle part has that keyword as its key;
\* a token with a non-letter between two letters changes nothing, neither
\* for the whole token nor for its fragments.
C3_BoundaryOnly ==
    texts # <<>> =>
        LET t == texts[Len(texts)]
            mids == AcceptedMiddles(t)
            keyOf == [m \in mids |-> CanonicalKey(SubSeq(t, m[1], m[2]))] IN
        \A k \in Keywords(bag, texts) :
            match_count(bag, k) - match_count(before, k) =
                Cardinality({m \in mids : keyOf[m] = k})

\* The last call ingested a token with a non-letter between two letters.
C3_Witness ==
    /\ texts # <<>>
    /\ InternalTokens(texts[Len(texts)]) # {}

\* C4: every stored key is non-empty and all its characters are letters.
C4_KeysAreLetters ==
    \A i \in 1..Len(bag) :
        /\ bag[i].key.text # <<>>
        /\ \A j \in 1..Len(bag[i].key.text) : is_alphabetic(bag[i].key.text[j])

C6_ExactLookup ==
    /\ \A k \in Keywords(bag, texts) : match_count(bag, k) = StoredCount(bag, k)
    /\ texts = << <<65>> >> =>
          /\ match_count(bag, <<97>>) = 1
          /\ match_count(bag, <<65>>) = 0

\* Only "A" was ingested, and it is found under "a".
C6_Witness ==
    /\ texts = << <<65>> >>
    /\ match_count(bag, <<97>>) = 1

\* C7: ingesting the same text a second time doubles every key's count and
\* count(), and leaves len() and words() unchanged.
C7_SameTextTwice ==
    (Len(texts) = 2 /\ texts[1] = texts[2]) =>
        /\ len(bag) = len(before)
        /\ words(bag) = words(before)
        /\ count(bag) = 2 * count(before)
        /\ \A k \in Keywords(bag, texts) :
              match_count(bag, k) = 2 * match_count(before, k)

\* A text with two distinct words, ingested twice.
C7_Witness ==
    /\ Len(texts) = 2
    /\ texts[1] = texts[2]
    /\ len(bag) >= 2
    /\ count(bag) >= 4

\* C8: words() yields len() keys in strictly ascending code point order,
\* each key once, and they are the canonical keys of the accepted words,
\* whatever the order of ingestion and whether borrowed or owned.
C8_WordsSorted ==
    LET ws == words(bag) IN
    /\ Len(ws) = len(bag)
    /\ \A i \in 1..(Len(ws) - 1) : LexLess(ws[i], ws[i + 1])
    /\ Range(ws) = {CanonicalKey(WordAt(o)) : o \in AcceptedOcc}

\* A borrowed key ingested before an owned key that sorts below it.
C8_Witness ==
    /\ len(bag) >= 2
    /\ \E i \in 1..(Len(bag) - 1) : bag[i].key.owned /\ ~bag[i + 1].key.owned
    /\ \E o, p \in AcceptedOcc :
          /\ o[1] < p[1] \/ (o[1] = p[1] /\ o[2] < p[2])
          /\ LexLess(CanonicalKey(WordAt(p)), CanonicalKey(WordAt(o)))

\* C9 as stated: len() <= count(), with equality iff the accepted words
\* ingested so far are pairwise distinct.
C9_EqualIffWordsDistinct ==
    /\ len(bag) <= count(bag)
    /\ len(bag) = count(bag) <=>
          \A o, p \in AcceptedOcc : o # p => WordAt(o) # WordAt(p)

\* C9 as amended: len() <= count(), with equality iff the canonical keys of
\* the accepted words ingested so far are pairwise distinct.
C9_EqualIffKeysDistinct ==
    /\ len(bag) <= count(bag)
    /\ len(bag) = count(bag) <=>
          \A o, p \in AcceptedOcc :
              o # p => CanonicalKey(WordAt(o)) # CanonicalKey(WordAt(p))

\* Two distinct accepted words that share a canonical key.
C9_Witness ==
    /\ len(bag) < count(bag)
    /\ \E o, p \in AcceptedOcc :
          /\ WordAt(o) # WordAt(p)
          /\ CanonicalKey(WordAt(o)) = CanonicalKey(WordAt(p))

\* C10: match_count after chained calls is the sum of what each text gives
\* alone, the bag does not depend on the order of the calls, and no call
\* removes a key or decreases a count.
C10_Accumulates ==
    LET other == Chain(new, Reverse(texts))
        alone == [n \in 1..Len(texts) |-> extend_from_text(new, texts[n])] IN
    /\ words(other) = words(bag)
    /\ Keys(before) \subseteq Keys(bag)
    /\ \A k \in Keywords(bag, texts) :
          LET here == match_count(bag, k) IN
          /\ here = SumMatch(alone, k)
          /\ here = match_count(other, k)
          /\ here >= match_count(before, k)

\* Two different texts that both count a word under the same key.
C10_Witness ==
    /\ Len(texts) = 2
    /\ texts[1] # texts[2]
    /\ \E k \in Keys(bag) :
          /\ match_count(extend_from_text(new, texts[1]), k) >= 1
          /\ match_count(extend_from_text(new, texts[2]), k) >= 1

====
